---- MODULE Spec2Model ----
(***************************************************************************)
(* State machine of the BlocklistApp search controller                     *)
(* (src/src/components/BlocklistApp.tsx): the five React state cells, the  *)
(* debounce timer of useDebounce, the in-flight searchForProfile and       *)
(* handleSelect continuations, and the three API wrappers.                 *)
(***************************************************************************)
EXTENDS Integers, Sequences, FiniteSets, TLC

VARIABLES
    query,            \* useState('') : text of the input field
    searchProfile,    \* useState(null) : the candidate shown in the dropdown
    selectedProfile,  \* useState(null)
    blocklist,        \* useState([])
    isSearching,      \* useState(false) : the busy flag
    timer,            \* TRUE while the debounce timeout is pending
    searches,         \* searchForProfile calls suspended at an await
    selects,          \* handleSelect calls suspended at their await
    calls,            \* number of requests issued so far, per API operation
    blocklistFor,     \* history: the profile whose fetch produced blocklist
    candidateBy,      \* history: id of the search that stored searchProfile
    stale,            \* history: searchProfile replaced a newer search's candidate
    lastEvent         \* history: the handler that ran last

vars == <<query, searchProfile, selectedProfile, blocklist, isSearching,
          timer, searches, selects, calls, blocklistFor,
          candidateBy, stale, lastEvent>>

(* ---------------- bounds ---------------- *)
\* number of searchForProfile sequences that get past the length test
MaxSearches == 2
\* number of clicks on the shown search result
MaxSelects == 2

(* ---------------- values ---------------- *)
\* handles the identity service knows
Accounts == {"abc", "xyz"}

\* texts the input field can hold (e.target.value)
Queries == {"", "al"} \cup Accounts

\* JavaScript null, a field that is not there, a string value
Null == [type |-> "null"]
Undefined == "undefined"
Str(s) == [type |-> "string", value |-> s]

\* outcomes of one fetch + response.json()
\*   netErr  : fetch rejects
\*   badJson : response.json() rejects
\*   errBody : non-2xx status with a JSON error object as body
\*   noField : 2xx JSON object without the expected field
\*   ok      : 2xx JSON object with the expected field
\*   empty   : (blocklist only) 2xx with data.blocklist = []
FailureKinds == {"netErr", "badJson", "errBody", "noField"}
Kinds == FailureKinds \cup {"ok"}
BlocklistKinds == Kinds \cup {"empty"}
Throws(kind) == kind \in {"netErr", "badJson"}

\* what the remote services hold
DidOf(handle) == "did:plc:" \o handle
HandleOfDid(did) == CHOOSE h \in Accounts : DidOf(h) = did
\* (a profile is kept as the fields the component reads; an error body and a
\* body without the profile fields are both objects without a handle)
ProfileOf(did) == [type |-> "object", handle |-> HandleOfDid(did)]
NoProfileBody == [type |-> "object", handle |-> Undefined]
BlocklistOf(handle) ==
    << [handle |-> "blocker-of-" \o handle, blocked_date |-> "2024-01-01",
        status |-> TRUE] >>

\* JavaScript truthiness of the values above
Truthy(v) == v # Null

(* ---------------- the API object ---------------- *)
\* API.getDidFromHandle: data.did || null, null when anything throws
GetDidFromHandle(handle, kind) ==
    IF Throws(kind) THEN Null
    ELSE IF kind = "ok" THEN Str(DidOf(handle))
    ELSE Null

\* API.getProfileByDid: the parsed body whatever it is, null when anything throws
GetProfileByDid(did, kind) ==
    IF Throws(kind) THEN Null
    ELSE IF kind = "ok" THEN ProfileOf(did)
    ELSE NoProfileBody

\* API.getBlocklist: data.data.blocklist || [], [] when anything throws
\* (data.data of an error body is undefined, so reading .blocklist throws)
GetBlocklist(handle, kind) ==
    IF Throws(kind) \/ kind = "errBody" THEN << >>
    ELSE IF kind = "ok" THEN BlocklistOf(handle)
    ELSE << >>

\* a request a continuation is suspended on
Call(op, arg) == [op |-> op, arg |-> arg]

\* the sequence s without its i-th element
RemoveAt(s, i) == SubSeq(s, 1, i - 1) \o SubSeq(s, i + 1, Len(s))

(* ---------------- initial state ---------------- *)
\* the state after mount: useDebounce has armed its first timeout
Init ==
    /\ query = ""
    /\ searchProfile = Null
    /\ selectedProfile = Null
    /\ blocklist = << >>
    /\ isSearching = FALSE
    /\ timer = TRUE
    /\ searches = << >>
    /\ selects = << >>
    /\ calls = [getDidFromHandle |-> 0, getProfileByDid |-> 0, getBlocklist |-> 0]
    /\ blocklistFor = Null
    /\ candidateBy = 0
    /\ stale = FALSE
    /\ lastEvent = "mount"

(* ---------------- operations ---------------- *)
\* Keystroke without the debounce: every edit starts the lookup at once
KeystrokeEager(q) ==
    /\ q # query
    /\ query' = q
    /\ timer' = FALSE
    /\ lastEvent' = "keystroke"
    /\ IF Len(q) < 3
       THEN /\ searchProfile' = Null
            /\ candidateBy' = 0
            /\ stale' = FALSE
            /\ UNCHANGED <<isSearching, searches, calls>>
       ELSE /\ calls.getDidFromHandle < MaxSearches
            /\ isSearching' = TRUE
            /\ calls' = [calls EXCEPT !.getDidFromHandle = @ + 1]
            /\ searches' = Append(searches,
                   [id |-> calls.getDidFromHandle + 1, q |-> q,
                    await |-> Call("getDidFromHandle", q)])
            /\ UNCHANGED <<searchProfile, candidateBy, stale>>
    /\ UNCHANGED <<selectedProfile, blocklist, selects, blocklistFor>>

\* onChange: setQuery(e.target.value); the changed dependency re-arms the timer
Keystroke(q) ==
    /\ q # query
    /\ query' = q
    /\ timer' = TRUE
    /\ lastEvent' = "keystroke"
    /\ UNCHANGED <<searchProfile, selectedProfile, blocklist, isSearching,
                   searches, selects, calls, blocklistFor, candidateBy, stale>>

\* SearchForProfile with the length test off by one (query.length < 2)
SearchForProfileOffByOne(q) ==
    IF Len(q) < 2
    THEN /\ searchProfile' = Null
         /\ candidateBy' = 0
         /\ stale' = FALSE
         /\ UNCHANGED <<isSearching, searches, calls>>
    ELSE /\ calls.getDidFromHandle < MaxSearches
         /\ isSearching' = TRUE
         /\ calls' = [calls EXCEPT !.getDidFromHandle = @ + 1]
         /\ searches' = Append(searches,
                [id |-> calls.getDidFromHandle + 1, q |-> q,
                 await |-> Call("getDidFromHandle", q)])
         /\ UNCHANGED <<searchProfile, candidateBy, stale>>

\* searchForProfile(q) up to its first await
SearchForProfile(q) ==
    IF Len(q) < 3
    THEN /\ searchProfile' = Null
         /\ candidateBy' = 0
         /\ stale' = FALSE
         /\ UNCHANGED <<isSearching, searches, calls>>
    ELSE /\ calls.getDidFromHandle < MaxSearches
         /\ isSearching' = TRUE
         /\ calls' = [calls EXCEPT !.getDidFromHandle = @ + 1]
         /\ searches' = Append(searches,
                [id |-> calls.getDidFromHandle + 1, q |-> q,
                 await |-> Call("getDidFromHandle", q)])
         /\ UNCHANGED <<searchProfile, candidateBy, stale>>

\* the debounce timeout fires: the callback runs searchForProfile(query)
DebounceExpire ==
    /\ timer
    /\ timer' = FALSE
    /\ SearchForProfile(query)
    /\ lastEvent' = "debounce"
    /\ UNCHANGED <<query, selectedProfile, blocklist, selects, blocklistFor>>

\* DidResponse that returns early on a null did, leaving the busy flag set
DidResponseStaysBusy(i, kind) ==
    /\ i \in 1..Len(searches)
    /\ searches[i].await.op = "getDidFromHandle"
    /\ LET did == GetDidFromHandle(searches[i].await.arg, kind) IN
        IF Truthy(did)
        THEN /\ searches' = [searches EXCEPT
                    ![i].await = Call("getProfileByDid", did.value)]
             /\ calls' = [calls EXCEPT !.getProfileByDid = @ + 1]
             /\ UNCHANGED <<searchProfile, isSearching, candidateBy, stale>>
        ELSE /\ searches' = RemoveAt(searches, i)
             /\ searchProfile' = Null
             /\ candidateBy' = 0
             /\ stale' = FALSE
             /\ UNCHANGED <<isSearching, calls>>
    /\ lastEvent' = "didResponse"
    /\ UNCHANGED <<query, selectedProfile, blocklist, timer, selects,
                   blocklistFor>>

\* searchForProfile resumes with the result of getDidFromHandle
DidResponse(i, kind) ==
    /\ i \in 1..Len(searches)
    /\ searches[i].await.op = "getDidFromHandle"
    /\ LET did == GetDidFromHandle(searches[i].await.arg, kind) IN
        IF Truthy(did)
        THEN /\ searches' = [searches EXCEPT
                    ![i].await = Call("getProfileByDid", did.value)]
             /\ calls' = [calls EXCEPT !.getProfileByDid = @ + 1]
             /\ UNCHANGED <<searchProfile, isSearching, candidateBy, stale>>
        ELSE /\ searches' = RemoveAt(searches, i)
             /\ searchProfile' = Null
             /\ candidateBy' = 0
             /\ stale' = FALSE
             /\ isSearching' = FALSE
             /\ UNCHANGED calls
    /\ lastEvent' = "didResponse"
    /\ UNCHANGED <<query, selectedProfile, blocklist, timer, selects,
                   blocklistFor>>

\* ProfileResponse that ignores the response of a search whose query is no
\* longer the text of the input field
ProfileResponseDropsStale(i, kind) ==
    /\ i \in 1..Len(searches)
    /\ searches[i].await.op = "getProfileByDid"
    /\ searches' = RemoveAt(searches, i)
    /\ IF searches[i].q = query
       THEN /\ searchProfile' = GetProfileByDid(searches[i].await.arg, kind)
            /\ candidateBy' = IF Truthy(searchProfile') THEN searches[i].id ELSE 0
            /\ stale' = (Truthy(searchProfile') /\ candidateBy > searches[i].id)
       ELSE UNCHANGED <<searchProfile, candidateBy, stale>>
    /\ isSearching' = FALSE
    /\ lastEvent' = "profileResponse"
    /\ UNCHANGED <<query, selectedProfile, blocklist, timer, selects, calls,
                   blocklistFor>>

\* searchForProfile resumes with the result of getProfileByDid
ProfileResponse(i, kind) ==
    /\ i \in 1..Len(searches)
    /\ searches[i].await.op = "getProfileByDid"
    /\ searches' = RemoveAt(searches, i)
    /\ searchProfile' = GetProfileByDid(searches[i].await.arg, kind)
    /\ candidateBy' = IF Truthy(searchProfile') THEN searches[i].id ELSE 0
    /\ stale' = (Truthy(searchProfile') /\ candidateBy > searches[i].id)
    /\ isSearching' = FALSE
    /\ lastEvent' = "profileResponse"
    /\ UNCHANGED <<query, selectedProfile, blocklist, timer, selects, calls,
                   blocklistFor>>

\* handleSelect(searchProfile) up to its await; the row exists only while
\* searchProfile is truthy
HandleSelect ==
    /\ Truthy(searchProfile)
    /\ calls.getBlocklist < MaxSelects
    /\ selectedProfile' = searchProfile
    /\ calls' = [calls EXCEPT !.getBlocklist = @ + 1]
    /\ selects' = Append(selects,
            [profile |-> searchProfile,
             await |-> Call("getBlocklist", searchProfile.handle)])
    /\ lastEvent' = "select"
    /\ UNCHANGED <<query, searchProfile, blocklist, isSearching, timer,
                   searches, blocklistFor, candidateBy, stale>>

\* BlocklistResponse that forgets setQuery('')
BlocklistResponseKeepsQuery(j, kind) ==
    /\ j \in 1..Len(selects)
    /\ selects' = RemoveAt(selects, j)
    /\ blocklist' = GetBlocklist(selects[j].await.arg, kind)
    /\ blocklistFor' = selects[j].profile
    /\ searchProfile' = Null
    /\ candidateBy' = 0
    /\ stale' = FALSE
    /\ lastEvent' = "blocklistResponse"
    /\ UNCHANGED <<query, timer, selectedProfile, isSearching, searches, calls>>

\* handleSelect resumes with the result of getBlocklist
BlocklistResponse(j, kind) ==
    /\ j \in 1..Len(selects)
    /\ selects' = RemoveAt(selects, j)
    /\ blocklist' = GetBlocklist(selects[j].await.arg, kind)
    /\ blocklistFor' = selects[j].profile
    /\ query' = ""
    /\ timer' = IF query # "" THEN TRUE ELSE timer
    /\ searchProfile' = Null
    /\ candidateBy' = 0
    /\ stale' = FALSE
    /\ lastEvent' = "blocklistResponse"
    /\ UNCHANGED <<selectedProfile, isSearching, searches, calls>>

\* MouseDown without the contains() test: every pointer-down dismisses
MouseDownAnywhere(outside) ==
    /\ searchProfile' = Null
    /\ candidateBy' = 0
    /\ stale' = FALSE
    /\ lastEvent' = IF outside THEN "mousedownOutside" ELSE "mousedownInside"
    /\ UNCHANGED <<query, selectedProfile, blocklist, isSearching, timer,
                   searches, selects, calls, blocklistFor>>

\* handleClickOutside: outside = the event target is not inside searchRef
MouseDown(outside) ==
    /\ IF outside
       THEN /\ searchProfile' = Null
            /\ candidateBy' = 0
            /\ stale' = FALSE
       ELSE UNCHANGED <<searchProfile, candidateBy, stale>>
    /\ lastEvent' = IF outside THEN "mousedownOutside" ELSE "mousedownInside"
    /\ UNCHANGED <<query, selectedProfile, blocklist, isSearching, timer,
                   searches, selects, calls, blocklistFor>>

Next ==
    \/ \E q \in Queries : Keystroke(q)
    \/ DebounceExpire
    \/ \E i \in 1..MaxSearches, kind \in Kinds : DidResponse(i, kind)
    \/ \E i \in 1..MaxSearches, kind \in Kinds : ProfileResponse(i, kind)
    \/ HandleSelect
    \/ \E j \in 1..MaxSelects, kind \in BlocklistKinds : BlocklistResponse(j, kind)
    \/ \E outside \in BOOLEAN : MouseDown(outside)

Spec == Init /\ [][Next]_vars

\* the blocklist panel is rendered (selectedProfile && blocklist.length > 0)
PanelShown == Truthy(selectedProfile) /\ Len(blocklist) > 0

\* the state cells of the component, without the history variables
state == <<query, searchProfile, selectedProfile, blocklist, isSearching>>

(* ======================= properties ======================= *)

\* C1 - Debounce: an edit of the query issues no remote call; an expiry of
\* the debounce timer with a query of length >= 3 issues exactly one
\* getDidFromHandle call, for the current query text; a getProfileByDid call
\* is issued at most once per resolution, only by a resolution that was
\* waiting for its identifier, and only with a non-null identifier.
C1_Step ==
    /\ lastEvent' = "keystroke" =>
          /\ calls' = calls
          /\ searches' = searches
          /\ selects' = selects
    /\ (lastEvent' = "debounce" /\ Len(query) >= 3) =>
          /\ calls' = [calls EXCEPT !.getDidFromHandle = @ + 1]
          /\ Len(searches') = Len(searches) + 1
          /\ SubSeq(searches', 1, Len(searches)) = searches
          /\ searches'[Len(searches')].await = Call("getDidFromHandle", query)
    /\ calls'.getDidFromHandle # calls.getDidFromHandle =>
          lastEvent' = "debounce"
    /\ calls'.getProfileByDid # calls.getProfileByDid =>
          /\ calls' = [calls EXCEPT !.getProfileByDid = @ + 1]
          /\ lastEvent' = "didResponse"
          /\ Len(searches') = Len(searches)
          /\ \E i \in 1..Len(searches) :
                /\ searches[i].await = Call("getDidFromHandle", searches[i].q)
                /\ searches'[i].await = Call("getProfileByDid", DidOf(searches[i].q))
                /\ \A k \in 1..Len(searches) : k # i => searches'[k] = searches[k]
    /\ calls'.getProfileByDid <= calls'.getDidFromHandle
C1_Debounce == [][C1_Step]_vars

\* a resolution for the current query is waiting for its profile, and the
\* query has been edited since the mount
C1_Witness ==
    /\ calls.getDidFromHandle = 1
    /\ calls.getProfileByDid = 1
    /\ Len(searches) = 1
    /\ searches[1].await = Call("getProfileByDid", DidOf(query))

\* C2 - Short query: a debounce expiry with a query shorter than 3 issues no
\* remote call, sets the candidate to absent and does not touch the busy flag.
C2_ShortQuery ==
    [][(lastEvent' = "debounce" /\ Len(query) < 3) =>
          /\ calls' = calls
          /\ searches' = searches
          /\ selects' = selects
          /\ searchProfile' = Null
          /\ isSearching' = isSearching]_vars

\* the timer expired on the two-character query "al"
C2_Witness ==
    /\ lastEvent = "debounce"
    /\ query = "al"
    /\ searchProfile = Null
    /\ ~timer

\* C3 - Search-state invariant (as claimed): the candidate profile is present
\* only if the current query text has length >= 3.
C3_CandidateOnlyForLongQuery == Truthy(searchProfile) => Len(query) >= 3

\* C4 - Selection: a selection stores the shown candidate as the selected
\* profile and issues exactly one getBlocklist call for its handle; when that
\* call returns, the blocklist is its result, the query is empty and the
\* candidate is absent.
C4_Step ==
    /\ lastEvent' = "select" =>
          /\ Truthy(searchProfile)
          /\ selectedProfile' = searchProfile
          /\ calls' = [calls EXCEPT !.getBlocklist = @ + 1]
          /\ selects' = Append(selects,
                [profile |-> selectedProfile',
                 await |-> Call("getBlocklist", selectedProfile'.handle)])
    /\ calls'.getBlocklist # calls.getBlocklist => lastEvent' = "select"
    /\ lastEvent' = "blocklistResponse" =>
          /\ \E j \in 1..Len(selects) :
                /\ selects' = RemoveAt(selects, j)
                /\ blocklist' \in {<< >>, BlocklistOf(selects[j].await.arg)}
          /\ query' = ""
          /\ searchProfile' = Null
          /\ calls' = calls
C4_Selection == [][C4_Step]_vars

\* a blocklist fetch has just returned with entries
C4_Witness ==
    /\ lastEvent = "blocklistResponse"
    /\ Truthy(selectedProfile)
    /\ blocklist = BlocklistOf(selectedProfile.handle)
    /\ query = ""
    /\ searchProfile = Null

\* C5 - Dismiss: a pointer-down outside the search region sets the candidate
\* to absent and leaves selected profile, blocklist, query and busy flag as
\* they were; a pointer-down inside changes no state.
C5_Dismiss ==
    [][/\ lastEvent' = "mousedownOutside" =>
            /\ searchProfile' = Null
            /\ UNCHANGED <<selectedProfile, blocklist, query, isSearching>>
       /\ lastEvent' = "mousedownInside" =>
            UNCHANGED <<state, timer, searches, selects, calls>>]_vars

\* the dropdown was dismissed while the panel is shown and the query is
\* still in the input field
C5_Witness ==
    /\ lastEvent = "mousedownOutside"
    /\ searchProfile = Null
    /\ PanelShown
    /\ Len(query) >= 3

\* a pointer-down inside the search region while the candidate is shown
C5_WitnessInside ==
    /\ lastEvent = "mousedownInside"
    /\ Truthy(searchProfile)

\* C6 - Replaced together (as claimed): the blocklist entries are always
\* those fetched for the selected profile; in particular the panel never
\* shows one profile's header over another profile's entries.
C6_ReplacedTogether == blocklistFor = selectedProfile

\* C7 - Degradation (as claimed): whatever the failure kind, the three
\* operations give null, null and the empty sequence, so that a failed
\* identifier lookup or profile fetch leaves the candidate absent and a failed
\* blocklist fetch leaves the blocklist empty.
C7_Degradation ==
    [][/\ lastEvent' = "didResponse" =>
            \A i \in 1..Len(searches), kind \in FailureKinds :
               DidResponse(i, kind) => (searchProfile' = Null /\ calls' = calls)
       /\ lastEvent' = "profileResponse" =>
            \A i \in 1..Len(searches), kind \in FailureKinds :
               ProfileResponse(i, kind) => searchProfile' = Null
       /\ lastEvent' = "blocklistResponse" =>
            \A j \in 1..Len(selects), kind \in FailureKinds :
               BlocklistResponse(j, kind) => blocklist' = << >>]_vars

\* C8 - Failed identifier resolution: a resolution that gets null from
\* getDidFromHandle issues no getProfileByDid call, sets the candidate to
\* absent and clears the busy flag; every resolution that ends clears the
\* busy flag.
C8_Step ==
    /\ lastEvent' = "didResponse" =>
          \A i \in 1..Len(searches), kind \in FailureKinds :
             DidResponse(i, kind) =>
                /\ calls' = calls
                /\ searches' = RemoveAt(searches, i)
                /\ searchProfile' = Null
                /\ isSearching' = FALSE
    /\ Len(searches') < Len(searches) => isSearching' = FALSE
C8_FailedResolution == [][C8_Step]_vars

\* the only resolution so far failed at the identifier lookup
C8_Witness ==
    /\ lastEvent = "didResponse"
    /\ calls.getDidFromHandle = 1
    /\ calls.getProfileByDid = 0
    /\ searches = << >>
    /\ searchProfile = Null
    /\ ~isSearching

\* C9 - Stale responses: an edit of the query cancels no resolution in
\* flight, and the profile that a resolution receives is stored as the
\* candidate whatever the query text is by then.
C9_Step ==
    /\ lastEvent' = "keystroke" => searches' = searches
    /\ lastEvent' = "profileResponse" =>
          \E i \in 1..Len(searches) :
             /\ searches[i].await.op = "getProfileByDid"
             /\ searches' = RemoveAt(searches, i)
             /\ searchProfile' \in
                   {Null, NoProfileBody,
                    [type |-> "object", handle |-> searches[i].q]}
C9_StaleNotCancelled == [][C9_Step]_vars

\* the response of the older resolution has replaced the candidate stored by
\* the newer one, and the candidate is not the profile of the current query
C9_Witness ==
    /\ stale
    /\ Truthy(searchProfile)
    /\ candidateBy < calls.getDidFromHandle
    /\ searchProfile.handle \in Accounts
    /\ query \in Accounts
    /\ searchProfile.handle # query

\* C10 - Blocklist of the selection (as claimed): whenever no blocklist fetch
\* is in flight, the blocklist entries are the result of the fetch issued for
\* the handle of the selected profile.
C10_BlocklistOfSelection ==
    selects = << >> =>
        IF Truthy(selectedProfile)
        THEN Truthy(blocklistFor) /\ blocklistFor.handle = selectedProfile.handle
        ELSE blocklistFor = Null
====
